---- MODULE Spec2Model ----
(***************************************************************************)
(* Model of the relaying core of yui-relayer: the channel handshake step   *)
(* evaluator (createChannelStep), the handshake driver (CreateChannel) and *)
(* the strategy runner (RunStrategy).                                      *)
(*                                                                         *)
(* The repository holds two versions of the channel file.  They share the  *)
(* dispatch table; they differ in two places: the newer one               *)
(* (src/unnamed/part_000) re-checks the channel states at the latest       *)
(* height (checkChannelFinality) and `continue`s on a batch that is not    *)
(* ready, the older one (src/unnamed/part_001) has no such re-check and    *)
(* `break`s out of the loop on a batch that is not ready.  The variable    *)
(* `variant` says which of the two files runs.                             *)
(***************************************************************************)
EXTENDS Integers, Sequences, FiniteSets, TLC

\* At most MaxHeaders headers of a chain are pending for its counterparty.
MaxHeaders == 2

\* Packet sequence numbers are 1..MaxSeq.
MaxSeq == 2

\* Each listener gives the strategy at most MaxEvents events.
MaxEvents == 2

\* The number of attempts retry.Do makes (the option rtyAtt, which
\* createChannelStep passes on and does not set).
rtyAttNum == 3

Chains == {"src", "dst"}

Variants == {"part_000", "part_001"}

\* chantypes.State
UNINITIALIZED == "UNINITIALIZED"
INIT == "INIT"
TRYOPEN == "TRYOPEN"
OPEN == "OPEN"

ChannelStates == {UNINITIALIZED, INIT, TRYOPEN, OPEN}

VARIABLES
    variant,    \* which version of the channel file runs
    pinned,     \* per chain: channel state at the height the SyncHeaders pins
    latest,     \* per chain: channel state at the chain's latest height
    state,      \* CreateChannel: RUNNING, DONE (returned nil), FAILED
                \* (returned an error), PANICKED (aborted by panic)
    failures,   \* CreateChannel's local `failures`
    ret,        \* the error CreateChannel returned ("nil" for none)
    obs,        \* what the most recent createChannelStep observed
    out,        \* the RelayMsgs the most recent createChannelStep returned
    branch,     \* the branch the most recent loop iteration took
    tick,       \* flips on every loop iteration of CreateChannel
    consec,     \* how many of the most recent submissions failed in a row
    submitted,  \* what the most recent loop iteration handed to each chain
    repeat,     \* the most recent step observed what the step before it did
    rsPc,       \* RunStrategy: the statement it is at
    rsRet,      \* RunStrategy: what it returned ("none" while it runs)
    listener,   \* per chain: the state of its event-listening task
    events,     \* per chain: how many events its listener gave the strategy
    sp,         \* the sequences UnrelayedSequences returned
    relayed,    \* the sequences handed to RelayPackets
    cancelPc,   \* the caller of the returned cancel function
    rtyPc,      \* retry.Do in one createChannelStep: the call it is at
    rtyN,       \* retry.Do: the number of the attempt, from 0
    rtyCalls,   \* the calls the step made since NewSyncHeaders, with their outcomes
    rtyOut      \* what the step returned (kind "none" while it runs)

vars == <<variant, pinned, latest, state, failures, ret, obs, out, branch, tick, consec,
          submitted, repeat, rsPc, rsRet, listener, events, sp, relayed, cancelPc,
          rtyPc, rtyN, rtyCalls, rtyOut>>

rsVars == <<rsPc, rsRet, listener, events, sp, relayed, cancelPc>>

retryVars == <<rtyPc, rtyN, rtyCalls, rtyOut>>

chainVars == <<pinned, latest>>
driverVars == <<state, failures, ret, obs, out, branch, tick, consec, submitted, repeat>>

(***************************************************************************)
(* Messages.  A message is a record: its type, the header it carries      *)
(* (NoHeader for a handshake message) and the counterparty channel state   *)
(* whose proof it carries ("none" for ChanOpenInit and for an update).     *)
(* A header is the chain it is a header of and its height.                 *)
(***************************************************************************)
Header(c, h) == [chain |-> c, height |-> h]

NoHeader == Header("none", 0)

UpdateClient(h) == [type |-> "MsgUpdateClient", header |-> h, proof |-> "none"]

\* PathEnd.UpdateClients: one update-client message per header, in order.
RECURSIVE UpdateClients(_)
UpdateClients(headers) ==
    IF headers = <<>> THEN <<>>
    ELSE <<UpdateClient(Head(headers))>> \o UpdateClients(Tail(headers))

ChanInit == [type |-> "MsgChannelOpenInit", header |-> NoHeader, proof |-> "none"]
ChanTry(cpChan) == [type |-> "MsgChannelOpenTry", header |-> NoHeader, proof |-> cpChan]
ChanAck(cpChan) == [type |-> "MsgChannelOpenAck", header |-> NoHeader, proof |-> cpChan]
ChanConfirm(cpChan) == [type |-> "MsgChannelOpenConfirm", header |-> NoHeader, proof |-> cpChan]

HandshakeTypes ==
    {"MsgChannelOpenInit", "MsgChannelOpenTry", "MsgChannelOpenAck", "MsgChannelOpenConfirm"}

\* NewRelayMsgs(): both sides empty, Last and Succeeded false.
NewRelayMsgs == [Src |-> <<>>, Dst |-> <<>>, Last |-> FALSE, Succeeded |-> FALSE]

\* RelayMsgs.Ready: there is something to submit on at least one side.
Ready(r) == ~(Len(r.Src) = 0 /\ Len(r.Dst) = 0)

\* RelayMsgs.Success
Success(r) == r.Succeeded

(***************************************************************************)
(* What one createChannelStep observes.  err names the call that fails     *)
(* when the step comes to it ("none" when no call fails); srcChan, dstChan *)
(* are the channel states read through sh.GetQueryContext (the pinned      *)
(* heights); srcChanLatest, dstChanLatest are the states read again at     *)
(* LatestHeight; the update headers are what SetupBothHeadersForUpdate     *)
(* returned, in order.                                                     *)
(***************************************************************************)
StepErrors == {"validatePaths", "NewSyncHeaders", "SetupBothHeadersForUpdate", "QueryChannelPair"}

FinalityErrors == {"LatestHeight", "QueryChannelPairLatest"}

\* The calls whose failure makes the step panic: sh.Updates in the retry
\* callback, and GetAddress inside mustGetAddress.
PanicPoints == {"Updates", "mustGetAddress"}

\* The calls that can fail in one step of the given version of the file.
ErrorsOf(v) ==
    PanicPoints \cup (IF v = "part_000" THEN StepErrors \cup FinalityErrors ELSE StepErrors)

\* The sequences of pending headers of chain c: the next n heights, in
\* ascending order, for n up to MaxHeaders.
HeaderSeqs(c) ==
    {[i \in 1..n |-> Header(c, i)] : n \in 0..MaxHeaders}

NoObservation ==
    [err |-> "none", srcChan |-> UNINITIALIZED, dstChan |-> UNINITIALIZED,
     srcChanLatest |-> UNINITIALIZED, dstChanLatest |-> UNINITIALIZED,
     srcUpdateHeaders |-> <<>>, dstUpdateHeaders |-> <<>>]

\* checkChannelFinality: an error of its own queries, else whether both
\* pinned states equal the states at the latest heights.
checkChannelFinality(o) ==
    IF o.err \in FinalityErrors THEN [finalized |-> FALSE, err |-> o.err]
    ELSE IF o.srcChan # o.srcChanLatest THEN [finalized |-> FALSE, err |-> "none"]
    ELSE IF o.dstChan # o.dstChanLatest THEN [finalized |-> FALSE, err |-> "none"]
    ELSE [finalized |-> TRUE, err |-> "none"]

Batch(r) == [kind |-> "batch", err |-> "none", msgs |-> r]
Error(e) == [kind |-> "error", err |-> e, msgs |-> NewRelayMsgs]
Panic == [kind |-> "panic", err |-> "none", msgs |-> NewRelayMsgs]

\* A faulty relay: the handshake message goes before the updates.
relayHandshakeFirst(q, headers, msg) ==
    (q \o <<msg>>) \o (IF Len(headers) > 0 THEN UpdateClients(headers) ELSE <<>>)

\* One case of the switch adds to a side q the update-client messages for
\* the pending headers, if there are any, and then the handshake message.
relay(q, headers, msg) ==
    (IF Len(headers) > 0 THEN q \o UpdateClients(headers) ELSE q) \o <<msg>>

\* A faulty markLast: Last is left false.
markLastForgotten(r) == r

\* out.Last = true, in the two ChanOpenConfirm cases.
markLast(r) == [r EXCEPT !.Last = TRUE]

\* A faulty defaultCase: an empty batch instead of the panic.
defaultCaseSilent == Batch(NewRelayMsgs)

\* The default case of the switch.
defaultCase == Panic

\* A faulty dispatch: the case (TRYOPEN, INIT) addresses its ChanOpenAck to
\* src, as the case (INIT, TRYOPEN) does.
dispatchAckToSrc(o) ==
    LET s == o.srcChan
        d == o.dstChan
        new == NewRelayMsgs
        \* addr := mustGetAddress(...), the first statement of every case
        \* but the default
        addressed(r) == IF o.err = "mustGetAddress" THEN Panic ELSE Batch(r)
    IN  CASE s = UNINITIALIZED /\ d = UNINITIALIZED ->
                addressed([new EXCEPT !.Src = @ \o <<ChanInit>>])
          [] s = UNINITIALIZED /\ d = INIT ->
                addressed([new EXCEPT !.Src = relay(@, o.dstUpdateHeaders, ChanTry(d))])
          [] s = INIT /\ d = UNINITIALIZED ->
                addressed([new EXCEPT !.Dst = relay(@, o.srcUpdateHeaders, ChanTry(s))])
          [] s = TRYOPEN /\ d = INIT ->
                addressed([new EXCEPT !.Src = relay(@, o.dstUpdateHeaders, ChanAck(d))])
          [] s = INIT /\ d = TRYOPEN ->
                addressed([new EXCEPT !.Src = relay(@, o.dstUpdateHeaders, ChanAck(d))])
          [] s = TRYOPEN /\ d = OPEN ->
                addressed(markLast([new EXCEPT !.Src = relay(@, o.dstUpdateHeaders, ChanConfirm(d))]))
          [] s = OPEN /\ d = TRYOPEN ->
                addressed(markLast([new EXCEPT !.Dst = relay(@, o.srcUpdateHeaders, ChanConfirm(s))]))
          [] OTHER -> defaultCase

\* The switch of createChannelStep over (srcChan, dstChan), the same in
\* both versions of the file.
dispatch(o) ==
    LET s == o.srcChan
        d == o.dstChan
        new == NewRelayMsgs
        \* addr := mustGetAddress(...), the first statement of every case
        \* but the default
        addressed(r) == IF o.err = "mustGetAddress" THEN Panic ELSE Batch(r)
    IN  CASE s = UNINITIALIZED /\ d = UNINITIALIZED ->
                addressed([new EXCEPT !.Src = @ \o <<ChanInit>>])
          [] s = UNINITIALIZED /\ d = INIT ->
                addressed([new EXCEPT !.Src = relay(@, o.dstUpdateHeaders, ChanTry(d))])
          [] s = INIT /\ d = UNINITIALIZED ->
                addressed([new EXCEPT !.Dst = relay(@, o.srcUpdateHeaders, ChanTry(s))])
          [] s = TRYOPEN /\ d = INIT ->
                addressed([new EXCEPT !.Dst = relay(@, o.srcUpdateHeaders, ChanAck(s))])
          [] s = INIT /\ d = TRYOPEN ->
                addressed([new EXCEPT !.Src = relay(@, o.dstUpdateHeaders, ChanAck(d))])
          [] s = TRYOPEN /\ d = OPEN ->
                addressed(markLast([new EXCEPT !.Src = relay(@, o.dstUpdateHeaders, ChanConfirm(d))]))
          [] s = OPEN /\ d = TRYOPEN ->
                addressed(markLast([new EXCEPT !.Dst = relay(@, o.srcUpdateHeaders, ChanConfirm(s))]))
          [] OTHER -> defaultCase

\* createChannelStep of src/unnamed/part_000 (with the finality check).
createChannelStepFinal(o) ==
    IF o.err = "Updates" THEN Panic
    ELSE IF o.err \in StepErrors THEN Error(o.err)
    ELSE LET fin == checkChannelFinality(o)
         IN  IF fin.err # "none" THEN Error(fin.err)
             ELSE IF ~fin.finalized THEN Batch(NewRelayMsgs)
             ELSE dispatch(o)

\* createChannelStep of src/unnamed/part_001 (no finality check).
createChannelStepPinned(o) ==
    IF o.err = "Updates" THEN Panic
    ELSE IF o.err \in StepErrors THEN Error(o.err)
    ELSE dispatch(o)

\* A faulty createChannelStep: the step remembers what it observed and
\* returned last time and returns nothing for the same observation.
createChannelStepRemembering(v, o) ==
    IF branch # "none" /\ o = obs /\ Ready(out) THEN Batch(NewRelayMsgs)
    ELSE IF v = "part_000" THEN createChannelStepFinal(o) ELSE createChannelStepPinned(o)

createChannelStep(v, o) ==
    IF v = "part_000" THEN createChannelStepFinal(o) ELSE createChannelStepPinned(o)

(***************************************************************************)
(* The chains.  A chain accepts a handshake message only in the channel    *)
(* state the message starts from, and then moves to the state the message  *)
(* leads to; an update-client message leaves the channel state alone.      *)
(***************************************************************************)
PreState(t) ==
    CASE t = "MsgChannelOpenInit" -> UNINITIALIZED
      [] t = "MsgChannelOpenTry" -> UNINITIALIZED
      [] t = "MsgChannelOpenAck" -> INIT
      [] t = "MsgChannelOpenConfirm" -> TRYOPEN

PostState(t) ==
    CASE t = "MsgChannelOpenInit" -> INIT
      [] t = "MsgChannelOpenTry" -> TRYOPEN
      [] t = "MsgChannelOpenAck" -> OPEN
      [] t = "MsgChannelOpenConfirm" -> OPEN

\* The channel state of a chain in state s after msgs, or "REJECTED".
RECURSIVE Deliver(_, _)
Deliver(s, msgs) ==
    IF msgs = <<>> \/ s = "REJECTED" THEN s
    ELSE LET m == Head(msgs)
         IN  IF m.type \notin HandshakeTypes THEN Deliver(s, Tail(msgs))
             ELSE IF s = PreState(m.type) THEN Deliver(PostState(m.type), Tail(msgs))
             ELSE "REJECTED"

\* The answers Chain.Send(msgs) can give on a chain in state s: a
\* submission can always fail, and succeeds only if the chain accepts it.
SendResults(s, msgs) ==
    IF Deliver(s, msgs) = "REJECTED" THEN {FALSE} ELSE {FALSE, TRUE}

\* RelayMsgs.Send: the Src messages go to src and the Dst messages to dst,
\* a side with no message is not submitted; Succeeded is true unless a
\* submission failed.
Send(r, okSrc, okDst) ==
    [r EXCEPT !.Succeeded = (Len(r.Src) = 0 \/ okSrc) /\ (Len(r.Dst) = 0 \/ okDst)]

\* The channel state of a chain after Send submitted msgs to it with answer ok.
AfterSend(s, msgs, ok) ==
    IF Len(msgs) > 0 /\ ok THEN Deliver(s, msgs) ELSE s

\* RelaySequences with no sequence on either side.
NoSequences == [Src |-> {}, Dst |-> {}]

\* Nothing was handed to either chain.
Nothing == [src |-> <<>>, dst |-> <<>>]

(***************************************************************************)
(* The state after construction: CreateChannel is called on two chains in  *)
(* any pair of channel states, both final; failures = 0.                   *)
(***************************************************************************)
InitRetry ==
    /\ rtyPc = "SetupBothHeadersForUpdate"
    /\ rtyN = 0
    /\ rtyCalls = <<>>
    /\ rtyOut = [kind |-> "none", err |-> "none"]

InitStrategy ==
    /\ rsPc = "NewSyncHeaders"
    /\ rsRet = "none"
    /\ listener = [c \in Chains |-> "notStarted"]
    /\ events = [c \in Chains |-> 0]
    /\ sp = NoSequences
    /\ relayed = NoSequences
    /\ cancelPc = "idle"

Init ==
    /\ InitStrategy
    /\ InitRetry
    /\ variant \in Variants
    /\ latest \in [Chains -> ChannelStates]
    /\ pinned = latest
    /\ state = "RUNNING"
    /\ failures = 0
    /\ ret = "nil"
    /\ obs = NoObservation
    /\ out = NewRelayMsgs
    /\ branch = "none"
    /\ tick = FALSE
    /\ consec = 0
    /\ submitted = Nothing
    /\ repeat = FALSE

\* The observations one createChannelStep can make in the current state
\* (the headers are recorded only for a step in which no call failed).
Observations ==
    {o \in [err : {"none"} \cup ErrorsOf(variant),
            srcChan : {pinned["src"]}, dstChan : {pinned["dst"]},
            srcChanLatest : {latest["src"]}, dstChanLatest : {latest["dst"]},
            srcUpdateHeaders : HeaderSeqs("src"), dstUpdateHeaders : HeaderSeqs("dst")] :
        o.err # "none" => o.srcUpdateHeaders = <<>> /\ o.dstUpdateHeaders = <<>>}

\* A faulty afterSend: the cap is tested before the increment.
afterSendLateCap(f, r) ==
    IF Success(r) /\ r.Last
        THEN [state |-> "DONE", failures |-> f, ret |-> "nil", branch |-> "last"]
    ELSE IF Success(r)
        THEN [state |-> "RUNNING", failures |-> 0, ret |-> "nil", branch |-> "success"]
    ELSE IF f > 2
        THEN [state |-> "FAILED", failures |-> f + 1, ret |-> "ChannelFailed", branch |-> "failure"]
    ELSE [state |-> "RUNNING", failures |-> f + 1, ret |-> "nil", branch |-> "failure"]

\* A faulty afterSend: the first case tests Last alone.
afterSendLastOnly(f, r) ==
    IF r.Last
        THEN [state |-> "DONE", failures |-> f, ret |-> "nil", branch |-> "last"]
    ELSE IF Success(r)
        THEN [state |-> "RUNNING", failures |-> 0, ret |-> "nil", branch |-> "success"]
    ELSE IF f + 1 > 2
        THEN [state |-> "FAILED", failures |-> f + 1, ret |-> "ChannelFailed", branch |-> "failure"]
    ELSE [state |-> "RUNNING", failures |-> f + 1, ret |-> "nil", branch |-> "failure"]

\* A faulty afterSend: a success leaves the failure counter as it is.
afterSendNoReset(f, r) ==
    IF Success(r) /\ r.Last
        THEN [state |-> "DONE", failures |-> f, ret |-> "nil", branch |-> "last"]
    ELSE IF Success(r)
        THEN [state |-> "RUNNING", failures |-> f, ret |-> "nil", branch |-> "success"]
    ELSE IF f + 1 > 2
        THEN [state |-> "FAILED", failures |-> f + 1, ret |-> "ChannelFailed", branch |-> "failure"]
    ELSE [state |-> "RUNNING", failures |-> f + 1, ret |-> "nil", branch |-> "failure"]

\* A faulty afterSend: the cap is one failure too low.
afterSendEarlyCap(f, r) ==
    IF Success(r) /\ r.Last
        THEN [state |-> "DONE", failures |-> f, ret |-> "nil", branch |-> "last"]
    ELSE IF Success(r)
        THEN [state |-> "RUNNING", failures |-> 0, ret |-> "nil", branch |-> "success"]
    ELSE IF f + 1 > 1
        THEN [state |-> "FAILED", failures |-> f + 1, ret |-> "ChannelFailed", branch |-> "failure"]
    ELSE [state |-> "RUNNING", failures |-> f + 1, ret |-> "nil", branch |-> "failure"]

\* The switch after chanSteps.Send: what becomes of the driver, given the
\* failure counter f and the submitted batch r.
afterSend(f, r) ==
    IF Success(r) /\ r.Last
        THEN [state |-> "DONE", failures |-> f, ret |-> "nil", branch |-> "last"]
    ELSE IF Success(r)
        THEN [state |-> "RUNNING", failures |-> 0, ret |-> "nil", branch |-> "success"]
    ELSE IF f + 1 > 2
        THEN [state |-> "FAILED", failures |-> f + 1, ret |-> "ChannelFailed", branch |-> "failure"]
    ELSE [state |-> "RUNNING", failures |-> f + 1, ret |-> "nil", branch |-> "failure"]

\* A faulty notReady: `break` in both versions.
notReadyBreak(v) == "DONE"

\* What a batch that is not ready does to the loop: `continue` in
\* part_000, `break` (and then `return nil`) in part_001.
notReady(v) ==
    IF v = "part_000" THEN "RUNNING" ELSE "DONE"

\* A faulty loops: the loop goes on after a return.
loopsAfterReturn(st) == st # "PANICKED"

\* The loop `for ; true; <-ticker.C` takes another iteration as long as
\* no `return` (and no panic) has left it.
loops(st) == st = "RUNNING"

\* A faulty stepFailed: the error of the step is counted as one more failed
\* submission, and the loop goes on until the cap.
stepFailedCounted(f, e) ==
    IF f + 1 > 2 THEN [state |-> "FAILED", failures |-> f + 1, ret |-> e]
    ELSE [state |-> "RUNNING", failures |-> f + 1, ret |-> "nil"]

\* `if err != nil { ...; return err }` after createChannelStep: what becomes
\* of the driver, given the failure counter f and the error e.
stepFailed(f, e) == [state |-> "FAILED", failures |-> f, ret |-> e]

(***************************************************************************)
(* One iteration of CreateChannel's loop, by the branch it takes.          *)
(***************************************************************************)
\* createChannelStep returned an error: return it.
StepError ==
    /\ loops(state)
    /\ \E o \in Observations :
        LET res == createChannelStep(variant, o)
        IN  /\ res.kind = "error"
            /\ obs' = o
            /\ repeat' = (branch # "none" /\ o = obs)
            /\ out' = res.msgs
            /\ state' = stepFailed(failures, res.err).state
            /\ failures' = stepFailed(failures, res.err).failures
            /\ ret' = stepFailed(failures, res.err).ret
    /\ branch' = "error"
    /\ tick' = ~tick
    /\ submitted' = Nothing
    /\ UNCHANGED <<variant, pinned, latest, consec>>
    /\ UNCHANGED rsVars
    /\ UNCHANGED retryVars

\* createChannelStep panicked: in the default case of its switch, in the
\* retry callback or in mustGetAddress.
StepPanic ==
    /\ loops(state)
    /\ \E o \in Observations :
        LET res == createChannelStep(variant, o)
        IN  /\ res.kind = "panic"
            /\ obs' = o
            /\ repeat' = (branch # "none" /\ o = obs)
            /\ out' = res.msgs
    /\ state' = "PANICKED"
    /\ branch' = "panic"
    /\ tick' = ~tick
    /\ submitted' = Nothing
    /\ UNCHANGED <<variant, pinned, latest, failures, ret, consec>>
    /\ UNCHANGED rsVars
    /\ UNCHANGED retryVars

\* The batch is not ready: nothing is submitted.
StepNotReady ==
    /\ loops(state)
    /\ \E o \in Observations :
        LET res == createChannelStep(variant, o)
        IN  /\ res.kind = "batch"
            /\ ~Ready(res.msgs)
            /\ obs' = o
            /\ repeat' = (branch # "none" /\ o = obs)
            /\ out' = res.msgs
    /\ state' = notReady(variant)
    /\ branch' = "notready"
    /\ tick' = ~tick
    /\ submitted' = Nothing
    /\ UNCHANGED <<variant, pinned, latest, failures, ret, consec>>
    /\ UNCHANGED rsVars
    /\ UNCHANGED retryVars

\* The batch is ready: it is submitted, and the switch on its outcome runs.
StepSend ==
    /\ loops(state)
    /\ \E o \in Observations :
        LET res == createChannelStep(variant, o)
        IN  /\ res.kind = "batch"
            /\ Ready(res.msgs)
            /\ \E okSrc \in SendResults(latest["src"], res.msgs.Src) :
               \E okDst \in SendResults(latest["dst"], res.msgs.Dst) :
                LET sent == Send(res.msgs, okSrc, okDst)
                    nxt == afterSend(failures, sent)
                IN  /\ obs' = o
                    /\ repeat' = (branch # "none" /\ o = obs)
                    /\ out' = sent
                    /\ latest' = [latest EXCEPT
                            !["src"] = AfterSend(@, sent.Src, okSrc),
                            !["dst"] = AfterSend(@, sent.Dst, okDst)]
                    /\ state' = nxt.state
                    /\ failures' = nxt.failures
                    /\ ret' = nxt.ret
                    /\ branch' = nxt.branch
                    /\ consec' = IF Success(sent) THEN 0 ELSE consec + 1
                    /\ submitted' = [src |-> sent.Src, dst |-> sent.Dst]
    /\ tick' = ~tick
    /\ UNCHANGED <<variant, pinned>>
    /\ UNCHANGED rsVars
    /\ UNCHANGED retryVars

\* The chain: the height the synchronizer pins catches up with the latest
\* height, so the pinned state becomes the latest state.
Finalize(c) ==
    /\ pinned[c] # latest[c]
    /\ pinned' = [pinned EXCEPT ![c] = latest[c]]
    /\ UNCHANGED <<variant, latest>>
    /\ UNCHANGED driverVars
    /\ UNCHANGED rsVars
    /\ UNCHANGED retryVars

Next ==
    \/ StepError
    \/ StepPanic
    \/ StepNotReady
    \/ StepSend
    \/ \E c \in Chains : Finalize(c)

Spec == Init /\ [][Next]_vars

(***************************************************************************)
(* RunStrategy.  It makes doneChan, builds the SyncHeaders, starts the two *)
(* listeners with `go`, asks the strategy for the unrelayed sequences,     *)
(* relays them once and returns the function that sends on doneChan.       *)
(***************************************************************************)
\* The values UnrelayedSequences can return.
RelaySequences == [Src : SUBSET (1..MaxSeq), Dst : SUBSET (1..MaxSeq)]

\* The tasks that receive from doneChan.  doneChan is a local of
\* RunStrategy that is handed to no task: StartEventListener gets the
\* counterparty chain and the strategy only.
DoneChanReceivers == {}

\* sh, err := NewSyncHeaders(src, dst); an error is returned with no handle.
RunNewSyncHeaders ==
    /\ rsPc = "NewSyncHeaders"
    /\ \E ok \in BOOLEAN :
        IF ok THEN rsPc' = "goSrc" /\ rsRet' = rsRet
        ELSE rsPc' = "returned" /\ rsRet' = "error"
    /\ UNCHANGED <<listener, events, sp, relayed, cancelPc>>
    /\ UNCHANGED <<variant, pinned, latest>>
    /\ UNCHANGED driverVars
    /\ UNCHANGED retryVars

\* go src.StartEventListener(dst, strategy)
GoSrcListener ==
    /\ rsPc = "goSrc"
    /\ listener' = [listener EXCEPT !["src"] = "running"]
    /\ rsPc' = "goDst"
    /\ UNCHANGED <<rsRet, events, sp, relayed, cancelPc>>
    /\ UNCHANGED <<variant, pinned, latest>>
    /\ UNCHANGED driverVars
    /\ UNCHANGED retryVars

\* go dst.StartEventListener(src, strategy)
GoDstListener ==
    /\ rsPc = "goDst"
    /\ listener' = [listener EXCEPT !["dst"] = "running"]
    /\ rsPc' = "UnrelayedSequences"
    /\ UNCHANGED <<rsRet, events, sp, relayed, cancelPc>>
    /\ UNCHANGED <<variant, pinned, latest>>
    /\ UNCHANGED driverVars
    /\ UNCHANGED retryVars

\* sp, err := strategy.UnrelayedSequences(src, dst, sh); an error is
\* returned with no handle.
RunUnrelayedSequences ==
    /\ rsPc = "UnrelayedSequences"
    /\ \/ /\ \E q \in RelaySequences : sp' = q
          /\ rsPc' = "RelayPackets"
          /\ rsRet' = rsRet
       \/ /\ sp' = sp
          /\ rsPc' = "returned"
          /\ rsRet' = "error"
    /\ UNCHANGED <<listener, events, relayed, cancelPc>>
    /\ UNCHANGED <<variant, pinned, latest>>
    /\ UNCHANGED driverVars
    /\ UNCHANGED retryVars

\* strategy.RelayPackets(src, dst, sp, sh); an error is returned with no
\* handle, else the cancel function is returned.
RunRelayPackets ==
    /\ rsPc = "RelayPackets"
    /\ relayed' = sp
    /\ \E ok \in BOOLEAN :
        rsRet' = IF ok THEN "handle" ELSE "error"
    /\ rsPc' = "returned"
    /\ UNCHANGED <<listener, events, sp, cancelPc>>
    /\ UNCHANGED <<variant, pinned, latest>>
    /\ UNCHANGED driverVars
    /\ UNCHANGED retryVars

\* A running listener gets an event of its chain and gives it to the
\* strategy (HandleEvents).
ListenerEvent(c) ==
    /\ listener[c] = "running"
    /\ events[c] < MaxEvents
    /\ events' = [events EXCEPT ![c] = @ + 1]
    /\ UNCHANGED <<rsPc, rsRet, listener, sp, relayed, cancelPc>>
    /\ UNCHANGED <<variant, pinned, latest>>
    /\ UNCHANGED driverVars
    /\ UNCHANGED retryVars

\* The returned function is called: doneChan <- struct{}{}.  doneChan is
\* unbuffered, so the send completes only by handing the value to one task
\* receiving from it; with no receiver the caller stays blocked.
InvokeCancel ==
    /\ rsRet = "handle"
    /\ cancelPc = "idle"
    /\ IF DoneChanReceivers = {}
         THEN cancelPc' = "blocked" /\ listener' = listener
         ELSE /\ cancelPc' = "returned"
              /\ \E c \in DoneChanReceivers :
                    listener' = [listener EXCEPT ![c] = "signalled"]
    /\ UNCHANGED <<rsPc, rsRet, events, sp, relayed>>
    /\ UNCHANGED <<variant, pinned, latest>>
    /\ UNCHANGED driverVars
    /\ UNCHANGED retryVars

\* RunStrategy alone, on two chains with no handshake running.
StrategyInit ==
    /\ InitStrategy
    /\ InitRetry
    /\ variant = "part_000"
    /\ latest = [c \in Chains |-> OPEN]
    /\ pinned = latest
    /\ state = "DONE"
    /\ failures = 0
    /\ ret = "nil"
    /\ obs = NoObservation
    /\ out = NewRelayMsgs
    /\ branch = "none"
    /\ tick = FALSE
    /\ consec = 0
    /\ submitted = Nothing
    /\ repeat = FALSE

StrategyNext ==
    \/ RunNewSyncHeaders
    \/ GoSrcListener
    \/ GoDstListener
    \/ RunUnrelayedSequences
    \/ RunRelayPackets
    \/ \E c \in Chains : ListenerEvent(c)
    \/ InvokeCancel

StrategySpec == StrategyInit /\ [][StrategyNext]_vars

(***************************************************************************)
(* The retry of SetupBothHeadersForUpdate inside one createChannelStep,    *)
(* call by call, from after NewSyncHeaders to the return of the step.      *)
(* retry.Do runs the function up to rtyAttNum times; after a failed        *)
(* attempt it runs the OnRetry callback, which calls sh.Updates and panics *)
(* on its error.  Whether the callback also runs after the last failed     *)
(* attempt depends on the version of the retry package, so both happen.    *)
(***************************************************************************)
Call(name, ok) == [call |-> name, ok |-> ok]

\* A faulty onRetry: the error of Updates is dropped.
onRetryDropsError(ok) == "retry"

\* The OnRetry callback: `if err := sh.Updates(src, dst); err != nil {
\* panic(err) }`.
onRetry(ok) == IF ok THEN "retry" ELSE "panic"

\* What the step returns on an observation with the given failing call.
Returned(e) ==
    LET res == createChannelStep(variant, [NoObservation EXCEPT !.err = e])
    IN  [kind |-> res.kind, err |-> res.err]

\* One attempt: srcUpdateHeaders, dstUpdateHeaders, err =
\* sh.SetupBothHeadersForUpdate(src, dst).
RetryAttempt ==
    /\ rtyPc = "SetupBothHeadersForUpdate"
    /\ rtyN < rtyAttNum
    /\ \E ok \in BOOLEAN :
        /\ rtyCalls' = Append(rtyCalls, Call("SetupBothHeadersForUpdate", ok))
        /\ IF ok
            THEN rtyPc' = "QueryChannelPair" /\ rtyOut' = rtyOut
            ELSE \/ rtyPc' = "OnRetry" /\ rtyOut' = rtyOut
                 \/ /\ rtyN = rtyAttNum - 1
                    /\ rtyPc' = "returned"
                    /\ rtyOut' = Returned("SetupBothHeadersForUpdate")
    /\ UNCHANGED rtyN
    /\ UNCHANGED <<variant, pinned, latest>>
    /\ UNCHANGED driverVars
    /\ UNCHANGED rsVars

\* The callback after a failed attempt, and then the next attempt or, after
\* the last one, the return of the error.
RetryOnRetry ==
    /\ rtyPc = "OnRetry"
    /\ \E ok \in BOOLEAN :
        /\ rtyCalls' = Append(rtyCalls, Call("Updates", ok))
        /\ IF onRetry(ok) = "panic"
            THEN rtyPc' = "panicked" /\ rtyOut' = Returned("Updates") /\ rtyN' = rtyN
            ELSE IF rtyN = rtyAttNum - 1
            THEN /\ rtyPc' = "returned"
                 /\ rtyOut' = Returned("SetupBothHeadersForUpdate")
                 /\ rtyN' = rtyN
            ELSE rtyPc' = "SetupBothHeadersForUpdate" /\ rtyOut' = rtyOut /\ rtyN' = rtyN + 1
    /\ UNCHANGED <<variant, pinned, latest>>
    /\ UNCHANGED driverVars
    /\ UNCHANGED rsVars

\* retry.Do returned nil: the channel query and the rest of the step.
RetryQuery ==
    /\ rtyPc = "QueryChannelPair"
    /\ \E o \in Observations :
        /\ o.err \notin {"validatePaths", "NewSyncHeaders", "SetupBothHeadersForUpdate", "Updates"}
        /\ rtyCalls' = Append(rtyCalls, Call("QueryChannelPair", o.err # "QueryChannelPair"))
        /\ rtyOut' = [kind |-> createChannelStep(variant, o).kind,
                      err |-> createChannelStep(variant, o).err]
    /\ rtyPc' = "returned"
    /\ UNCHANGED rtyN
    /\ UNCHANGED <<variant, pinned, latest>>
    /\ UNCHANGED driverVars
    /\ UNCHANGED rsVars

RetryNext ==
    \/ RetryAttempt
    \/ RetryOnRetry
    \/ RetryQuery

RetrySpec == Init /\ [][RetryNext]_vars

(***************************************************************************)
(* The claims.                                                             *)
(***************************************************************************)
\* The dispatch table of the handshake: the side and the type of the
\* handshake message, and whether the batch is the last step.
HandshakeTable ==
    {[src |-> UNINITIALIZED, dst |-> UNINITIALIZED, side |-> "src", type |-> "MsgChannelOpenInit", last |-> FALSE],
     [src |-> UNINITIALIZED, dst |-> INIT, side |-> "src", type |-> "MsgChannelOpenTry", last |-> FALSE],
     [src |-> INIT, dst |-> UNINITIALIZED, side |-> "dst", type |-> "MsgChannelOpenTry", last |-> FALSE],
     [src |-> TRYOPEN, dst |-> INIT, side |-> "dst", type |-> "MsgChannelOpenAck", last |-> FALSE],
     [src |-> INIT, dst |-> TRYOPEN, side |-> "src", type |-> "MsgChannelOpenAck", last |-> FALSE],
     [src |-> TRYOPEN, dst |-> OPEN, side |-> "src", type |-> "MsgChannelOpenConfirm", last |-> TRUE],
     [src |-> OPEN, dst |-> TRYOPEN, side |-> "dst", type |-> "MsgChannelOpenConfirm", last |-> TRUE]}

InTable(s, d) == \E row \in HandshakeTable : row.src = s /\ row.dst = d

\* A loop iteration has run, and every call of its step succeeded.
Evaluated == branch # "none" /\ obs.err = "none"

\* The most recent observation is final: pinned and latest states agree.
ObservationFinal == obs.srcChan = obs.srcChanLatest /\ obs.dstChan = obs.dstChanLatest

IsHandshake(m) == m.type \in HandshakeTypes

\* The iteration got a batch from createChannelStep (no error, no panic).
GotBatch == branch \in {"notready", "last", "success", "failure"}

\* C1: for each of the seven rows of the table, a final observation of the
\* row's pair gives a batch whose only handshake message is the row's, on
\* the row's side, the other side empty, and Last as the row says.
C1_TableOutcome ==
    \A row \in HandshakeTable :
        (Evaluated /\ ObservationFinal /\ obs.srcChan = row.src /\ obs.dstChan = row.dst) =>
            LET on == IF row.side = "src" THEN out.Src ELSE out.Dst
                off == IF row.side = "src" THEN out.Dst ELSE out.Src
                hs == SelectSeq(on, IsHandshake)
            IN  /\ GotBatch
                /\ Len(hs) = 1
                /\ hs[1].type = row.type
                /\ off = <<>>
                /\ out.Last = row.last

C1_Witness ==
    /\ Evaluated /\ ObservationFinal
    /\ obs.srcChan = OPEN /\ obs.dstChan = TRYOPEN
    /\ Len(obs.srcUpdateHeaders) = 2
    /\ Len(out.Dst) = 3 /\ out.Dst[3].type = "MsgChannelOpenConfirm"
    /\ out.Src = <<>> /\ out.Last

\* C2: when the pinned and the latest channel state of a chain differ, the
\* step returns a batch that is not ready, with Last false and no error,
\* and nothing is submitted.
C2_NotFinalNotReady ==
    (Evaluated /\ ~ObservationFinal) =>
        /\ branch = "notready"
        /\ ~Ready(out)
        /\ ~out.Last
        /\ submitted = Nothing

\* C3: "Channel failed" is returned on exactly the third failed submission
\* in a row: after the first and the second the driver is still running,
\* and after three failures in a row there is no further loop iteration.
C3_FailureCap ==
    /\ [](/\ (state = "FAILED" /\ ret = "ChannelFailed") <=> consec = 3
          /\ consec \in 0..3
          /\ (branch = "failure" /\ consec \in {1, 2}) => state = "RUNNING"
          /\ (branch = "failure" /\ consec = 3) => state = "FAILED")
    /\ [][consec = 3 => tick' = tick /\ latest' = latest]_vars

C3_Witness ==
    /\ state = "FAILED" /\ ret = "ChannelFailed"
    /\ consec = 3 /\ branch = "failure"
    /\ ~Success(out) /\ Ready(out)

\* C4: the driver returns success exactly when the batch it submitted last
\* was marked last step and its submission succeeded; every other return
\* carries an error.
C4_SuccessOnlyAfterLast ==
    /\ state = "DONE" <=>
          (branch \in {"last", "success", "failure"} /\ out.Last /\ Success(out))
    /\ state = "DONE" =>
          /\ ret = "nil"
          /\ submitted # Nothing
          /\ \E q \in {submitted["src"], submitted["dst"]} :
                q # <<>> /\ q[Len(q)].type = "MsgChannelOpenConfirm"
    /\ state = "FAILED" => ret # "nil"
    /\ state \in {"RUNNING", "PANICKED"} => ret = "nil"

C4_Witness ==
    /\ state = "DONE" /\ ret = "nil"
    /\ out.Last /\ Success(out)
    /\ submitted["src"] # <<>>

\* C5: a final observation of a pair that is no row of the table makes
\* the step abort: no batch is returned and nothing is submitted.
C5_OffTableAborts ==
    (Evaluated /\ ObservationFinal /\ ~InTable(obs.srcChan, obs.dstChan)) =>
        /\ branch = "panic"
        /\ state = "PANICKED"
        /\ ~Ready(out)
        /\ submitted = Nothing

C5_Witness ==
    /\ Evaluated /\ ObservationFinal
    /\ obs.srcChan = OPEN /\ obs.dstChan = OPEN
    /\ state = "PANICKED"

\* C6: on the side that carries the handshake message, the handshake
\* message is last, everything before it is an update-client message, and
\* the updates carry the counterparty's pending headers, in their order
\* (none when no header is pending; ChanOpenInit carries no proof and goes
\* alone, without updates).
C6_UpdatesBeforeHandshake ==
    (GotBatch /\ Ready(out)) =>
        \A side \in {"src", "dst"} :
            LET q == IF side = "src" THEN out.Src ELSE out.Dst
                pending == IF side = "src" THEN obs.dstUpdateHeaders ELSE obs.srcUpdateHeaders
                updates == SubSeq(q, 1, Len(q) - 1)
            IN  q # <<>> =>
                    /\ IsHandshake(q[Len(q)])
                    /\ \A i \in 1..Len(updates) : updates[i].type = "MsgUpdateClient"
                    /\ IF q[Len(q)].type = "MsgChannelOpenInit"
                          THEN updates = <<>>
                          ELSE [i \in 1..Len(updates) |-> updates[i].header] = pending

C6_Witness ==
    /\ GotBatch
    /\ obs.srcChan = UNINITIALIZED /\ obs.dstChan = INIT
    /\ obs.dstUpdateHeaders = <<Header("dst", 1), Header("dst", 2)>>
    /\ obs.srcUpdateHeaders = <<Header("src", 1)>>
    /\ out.Src = <<UpdateClient(Header("dst", 1)), UpdateClient(Header("dst", 2)), ChanTry(INIT)>>
    /\ out.Dst = <<>>

\* C7: once the cancel function that RunStrategy returned has been called,
\* both listeners have been signalled to stop.
C7_CancelSignalsBothListeners ==
    cancelPc # "idle" => \A c \in Chains : listener[c] \in {"signalled", "stopped"}

\* C8: a submission that succeeds on a batch not marked last step leaves
\* the failure counter at 0 and the driver running; the counter of a
\* running driver is the number of submissions that failed in a row since
\* the last success, so earlier failures do not count towards the cap.
C8_SuccessResetsFailures ==
    /\ [][(tick' # tick /\ GotBatch' /\ Ready(out') /\ Success(out') /\ ~out'.Last) =>
            (failures' = 0 /\ state' = "RUNNING")]_vars
    /\ [](state = "RUNNING" => failures = consec)
    /\ []((state = "FAILED" /\ ret = "ChannelFailed") => failures = 3 /\ consec = 3)

C8_Witness ==
    /\ branch = "success" /\ Success(out) /\ ~out.Last
    /\ failures = 0 /\ state = "RUNNING"
    /\ submitted["dst"] # <<>>

C10_NotReadyIsNoOp ==
    [][(tick' # tick /\ GotBatch' /\ out'.Src = <<>> /\ out'.Dst = <<>>) =>
            /\ submitted' = Nothing
            /\ latest' = latest
            /\ failures' = failures
            /\ consec' = consec
            /\ state' = "RUNNING"
            /\ ret' = "nil"]_vars

C10_Witness ==
    /\ branch = "notready" /\ ~Ready(out)
    /\ ~ObservationFinal
    /\ state = "RUNNING" /\ submitted = Nothing

\* The errors createChannelStep can return: of path validation, of header
\* synchronisation, of the channel query and of the finality re-query.
ReturnedErrors == StepErrors \cup FinalityErrors

\* C11: a loop iteration whose step returns an error ends the driver at
\* once with that same error, whatever the failure counter is; nothing is
\* submitted in it and no iteration follows it.
C11_StepErrorIsTerminal ==
    /\ [][(tick' # tick /\ obs'.err \in ReturnedErrors) =>
            ( /\ state' = "FAILED"
              /\ ret' = obs'.err
              /\ branch' = "error"
              /\ submitted' = Nothing
              /\ latest' = latest
              /\ failures' = failures )]_vars
    /\ [][branch = "error" => tick' = tick]_vars

C11_Witness ==
    /\ branch = "error" /\ state = "FAILED"
    /\ obs.err = "QueryChannelPairLatest" /\ ret = "QueryChannelPairLatest"
    /\ failures = 2

\* C12: DONE and FAILED are absorbing: once the driver has returned there
\* is no further loop iteration and nothing more is submitted.
C12_ReturnIsAbsorbing ==
    [][(state \in {"DONE", "FAILED"}) =>
            ( /\ state' = state
              /\ ret' = ret
              /\ tick' = tick
              /\ obs' = obs
              /\ out' = out
              /\ submitted' = submitted
              /\ latest' = latest )]_vars

\* A step (of the chain) was taken after the driver returned success.
C12_Witness ==
    /\ state = "DONE" /\ branch = "last"
    /\ pinned = latest

\* C13: there is no overall timeout: an iteration whose batch is not ready
\* leaves the driver running however often it repeats, and the driver
\* leaves RUNNING only by a successful last-step submission, by an error
\* or a panic of the step, or by the third failed submission in a row.
C13_OnlyThreeWaysOut ==
    /\ [][(state = "RUNNING" /\ state' # "RUNNING") =>
            ( \/ state' = "DONE" /\ branch' = "last" /\ out'.Last /\ Success(out')
              \/ state' = "FAILED" /\ branch' = "error" /\ obs'.err \in ReturnedErrors
              \/ state' = "PANICKED" /\ branch' = "panic"
              \/ state' = "FAILED" /\ branch' = "failure" /\ consec' = 3 /\ consec = 2 )]_vars
    /\ [][(tick' # tick /\ branch' = "notready") => state' = "RUNNING"]_vars

\* The driver waited twice in a row on the same observation and still runs.
C13_Witness ==
    /\ repeat /\ branch = "notready"
    /\ state = "RUNNING" /\ ret = "nil"
    /\ failures = 0

(***************************************************************************)
(* The handshake from scratch with a cooperating environment: both chains  *)
(* start UNINITIALIZED, every submission is accepted and applied, and the  *)
(* pinned height of each chain catches up in the end.  The ticker keeps    *)
(* firing, so an iteration that can submit is taken in the end.            *)
(***************************************************************************)
HandshakeInit ==
    /\ Init
    /\ latest = [c \in Chains |-> UNINITIALIZED]

\* An iteration whose batch both chains accept.
AcceptedSend == StepSend /\ Success(out')

\* An iteration that waits for finality, no call of the step failing.
WaitForFinality == StepNotReady /\ obs'.err = "none"

HandshakeNext ==
    \/ AcceptedSend
    \/ WaitForFinality
    \/ \E c \in Chains : Finalize(c)

HandshakeSpec ==
    /\ HandshakeInit
    /\ [][HandshakeNext]_vars
    /\ WF_vars(AcceptedSend)
    /\ \A c \in Chains : WF_vars(Finalize(c))

\* The four steps of the handshake from (UNINITIALIZED, UNINITIALIZED): the
\* pair before, the message, the chain it goes to, and the pair after.
HandshakeOrder ==
    <<[from |-> <<UNINITIALIZED, UNINITIALIZED>>, type |-> "MsgChannelOpenInit",
       side |-> "src", to |-> <<INIT, UNINITIALIZED>>],
      [from |-> <<INIT, UNINITIALIZED>>, type |-> "MsgChannelOpenTry",
       side |-> "dst", to |-> <<INIT, TRYOPEN>>],
      [from |-> <<INIT, TRYOPEN>>, type |-> "MsgChannelOpenAck",
       side |-> "src", to |-> <<OPEN, TRYOPEN>>],
      [from |-> <<OPEN, TRYOPEN>>, type |-> "MsgChannelOpenConfirm",
       side |-> "dst", to |-> <<OPEN, OPEN>>]>>

Pair(f) == <<f["src"], f["dst"]>>

Other(c) == IF c = "src" THEN "dst" ELSE "src"

\* No observation the step can make now takes the default branch.
NoDefaultBranch ==
    \A o \in Observations :
        o.err = "none" => createChannelStep(variant, o).kind # "panic"

\* C14: from (UNINITIALIZED, UNINITIALIZED), with every submission accepted
\* and every observation final in the end, the driver reaches DONE; each
\* successful submission is the next of ChanOpenInit on src, ChanOpenTry on
\* dst, ChanOpenAck on src, ChanOpenConfirm on dst, so DONE comes after
\* exactly these four; and no pair on the way takes the default branch.
C14_HandshakeCompletes ==
    /\ <>(state = "DONE")
    /\ [](state = "DONE" => Pair(latest) = HandshakeOrder[4].to)
    /\ [](state = "RUNNING" => NoDefaultBranch)
    /\ [][(tick' # tick /\ Success(out')) => latest' # latest]_vars
    /\ [][latest' # latest =>
            \E i \in 1..4 :
                LET e == HandshakeOrder[i]
                    sent == submitted'[e.side]
                IN  /\ Pair(latest) = e.from
                    /\ Pair(latest') = e.to
                    /\ Success(out')
                    /\ sent # <<>>
                    /\ sent[Len(sent)].type = e.type
                    /\ submitted'[Other(e.side)] = <<>>
                    /\ (state' = "DONE") = (i = 4)]_vars

\* The driver returned success with the ChanOpenConfirm it sent to dst.
C14_Witness ==
    /\ state = "DONE" /\ ret = "nil"
    /\ Pair(latest) = <<OPEN, OPEN>>
    /\ submitted["dst"] # <<>>
    /\ submitted["dst"][Len(submitted["dst"])].type = "MsgChannelOpenConfirm"
    /\ obs.srcChan = OPEN /\ obs.dstChan = TRYOPEN

\* C15: when the driver returns success the channel is OPEN on both
\* chains, whichever pair the chains started from.
C15_DoneMeansOpen ==
    state = "DONE" =>
        /\ ret = "nil"
        /\ \A c \in Chains : latest[c] = OPEN

\* Success after a ChanOpenConfirm sent to src, which the handshake from
\* (UNINITIALIZED, UNINITIALIZED) never sends.
C15_Witness ==
    /\ state = "DONE"
    /\ \A c \in Chains : latest[c] = OPEN
    /\ submitted["src"] # <<>>
    /\ submitted["dst"] = <<>>
    /\ obs.srcChan = TRYOPEN /\ obs.dstChan = OPEN

\* The order of the channel states.
Rank(s) ==
    CASE s = UNINITIALIZED -> 0
      [] s = INIT -> 1
      [] s = TRYOPEN -> 2
      [] s = OPEN -> 3

\* The counterparty state a handshake message proves.
ProvedState(t) ==
    CASE t = "MsgChannelOpenInit" -> UNINITIALIZED
      [] t = "MsgChannelOpenTry" -> INIT
      [] t = "MsgChannelOpenAck" -> TRYOPEN
      [] t = "MsgChannelOpenConfirm" -> OPEN

\* The state a handshake message is sent to.
LegalPreState(t) ==
    CASE t = "MsgChannelOpenInit" -> UNINITIALIZED
      [] t = "MsgChannelOpenTry" -> UNINITIALIZED
      [] t = "MsgChannelOpenAck" -> INIT
      [] t = "MsgChannelOpenConfirm" -> TRYOPEN

Observed(c) == IF c = "src" THEN obs.srcChan ELSE obs.dstChan

Emitted(c) == IF c = "src" THEN out.Src ELSE out.Dst

\* C16: every handshake message of a batch goes to a chain observed in the
\* message's legal pre-state, the counterparty observed in the state the
\* message proves (and the proof is of that state); a submission the chains
\* accept moves exactly the addressed chain, strictly forward, and no
\* step moves a chain otherwise.
C16_MessagesFitObservedStates ==
    /\ [](GotBatch =>
            \A c \in Chains : \A i \in 1..Len(Emitted(c)) :
                LET m == Emitted(c)[i]
                IN  IsHandshake(m) =>
                        /\ Observed(c) = LegalPreState(m.type)
                        /\ Observed(Other(c)) = ProvedState(m.type)
                        /\ m.type # "MsgChannelOpenInit" => m.proof = Observed(Other(c)))
    /\ [][(tick' # tick /\ Success(out')) =>
            \E c \in Chains :
                /\ submitted'[c] # <<>>
                /\ Rank(latest'[c]) > Rank(latest[c])
                /\ latest'[Other(c)] = latest[Other(c)]]_vars
    /\ [][latest' # latest =>
            \E c \in Chains :
                /\ tick' # tick
                /\ submitted'[c] # <<>>
                /\ Rank(latest'[c]) > Rank(latest[c])
                /\ latest'[Other(c)] = latest[Other(c)]]_vars

\* An accepted ChanOpenAck moved dst from INIT to OPEN, past TRYOPEN, and
\* left src in TRYOPEN.
C16_Witness ==
    /\ branch = "success"
    /\ obs.srcChan = TRYOPEN /\ obs.dstChan = INIT
    /\ out.Dst # <<>> /\ out.Dst[Len(out.Dst)].type = "MsgChannelOpenAck"
    /\ latest["dst"] = OPEN /\ latest["src"] = TRYOPEN

\* The calls of the step so far with the given name.
CallsOf(name) == {i \in 1..Len(rtyCalls) : rtyCalls[i].call = name}

FailedCalls(name) == {i \in CallsOf(name) : ~rtyCalls[i].ok}

AllAttemptsFailed == Cardinality(FailedCalls("SetupBothHeadersForUpdate")) = rtyAttNum

\* C17: SetupBothHeadersForUpdate is attempted at most rtyAttNum times; a
\* re-attempt comes right after one Updates call, which comes right after
\* the failed attempt; when all attempts have failed no channel query is
\* made and the step, once it returns, returns the error and no batch;
\* a failed Updates call is the last call of the step, which panics.
C17_BoundedRetryWithUpdates ==
    /\ Cardinality(CallsOf("SetupBothHeadersForUpdate")) <= rtyAttNum
    /\ \A i \in CallsOf("SetupBothHeadersForUpdate") :
            i > 1 => /\ i > 2
                     /\ rtyCalls[i - 1] = Call("Updates", TRUE)
                     /\ rtyCalls[i - 2] = Call("SetupBothHeadersForUpdate", FALSE)
    /\ \A i \in CallsOf("Updates") :
            i > 1 /\ rtyCalls[i - 1] = Call("SetupBothHeadersForUpdate", FALSE)
    /\ AllAttemptsFailed =>
            /\ CallsOf("QueryChannelPair") = {}
            /\ rtyPc \in {"OnRetry", "returned", "panicked"}
            /\ rtyPc = "returned" =>
                    rtyOut = [kind |-> "error", err |-> "SetupBothHeadersForUpdate"]
    /\ \A i \in FailedCalls("Updates") :
            /\ i = Len(rtyCalls)
            /\ rtyPc = "panicked"
            /\ rtyOut.kind = "panic"
    /\ rtyOut.kind = "batch" => CallsOf("QueryChannelPair") # {}

\* The last attempt succeeded after rtyAttNum - 1 failed ones, each followed
\* by its Updates call, and the step went on to a batch.
C17_Witness ==
    /\ rtyPc = "returned" /\ rtyOut.kind = "batch"
    /\ Cardinality(CallsOf("SetupBothHeadersForUpdate")) = rtyAttNum
    /\ Cardinality(CallsOf("Updates")) = rtyAttNum - 1
    /\ FailedCalls("Updates") = {}

\* C18: when RunStrategy has returned and a listener task it started is
\* running, it returned the cancel function; so a return with an error
\* (of NewSyncHeaders, UnrelayedSequences or RelayPackets) leaves no
\* listener started, and after a failed NewSyncHeaders no operation of the
\* strategy was called.
C18_ListenersOnlyWithHandle ==
    /\ (rsPc = "returned" /\ \E c \in Chains : listener[c] = "running") => rsRet = "handle"
    /\ (rsPc = "returned" /\ rsRet = "error" /\ \A c \in Chains : listener[c] = "notStarted") =>
            /\ sp = NoSequences
            /\ relayed = NoSequences
            /\ \A c \in Chains : events[c] = 0

\* C19: the caller of the cancel function is never left in the send on
\* doneChan with no task that receives from it.
C19_CancelReturns ==
    cancelPc = "blocked" => DoneChanReceivers # {}

====
